---- MODULE Spec2Model ----
(***************************************************************************)
(* Model of the prvhash SAT-solving simulations gradilac_sat.py            *)
(* (Variant A, fused XOR output) and t642_sat.py (Variant B, tango642      *)
(* with nonce and firewall): the bit-vector arithmetic, the mixing core    *)
(* in its concrete and symbolic form, and the two run schedules.           *)
(*                                                                         *)
(* A bit-vector is a sequence of BOOLEAN, least significant bit first;     *)
(* Python's element i is element i+1 here.                                 *)
(***************************************************************************)
EXTENDS Integers, Sequences, FiniteSets, TLC

VARIABLES
    pc,     \* position of the script / phase of the run
    bits,   \* state variable size ("bits")
    par,    \* simulation parameters of the run (hc, hci, num_obs, ...)
    calc,   \* concrete state: calc_seed, calc_lcg, calc_h, calc_x, ...
    sat,    \* symbolic state under an assignment: seed, lcg, h, x, ...
    obs,    \* observations
    hist    \* history of the run: calls made, bindings made, last writers

vars == <<pc, bits, par, calc, sat, obs, hist>>

----------------------------------------------------------------------------
(* Bounds of the model *)

MaxWidth == 4       \* widths 1..MaxWidth for the adder and the multiplier
MaxHalfBits == 2    \* the core is checked for bits = 2, 4, .., 2*MaxHalfBits
MaxEdge == 8        \* core inputs: the MaxEdge lowest and highest words of a width
MaxCalls == 3       \* length of a sequence of calls of the core
MaxHc == 4          \* schedules: hash array length hc in 1..MaxHc
MaxNumObs == 2      \* schedules: num_obs in 1..MaxNumObs
MaxFc == 2          \* schedules: firewall init length fc in 0..MaxFc
MaxIvlen == 3       \* schedules: nonce vector length ivlen in 0..MaxIvlen

----------------------------------------------------------------------------
(* Integer helpers: Python's  ^ , | , & mask , << , >>  on non-negative ints *)

Pow2(n) == 2 ^ n

RECURSIVE BitXor(_, _)
BitXor(a, b) ==
    IF a = 0 THEN b
    ELSE IF b = 0 THEN a
    ELSE (((a % 2) + (b % 2)) % 2) + 2 * BitXor(a \div 2, b \div 2)

RECURSIVE BitOr(_, _)
BitOr(a, b) ==
    IF a = 0 THEN b
    ELSE IF b = 0 THEN a
    ELSE (IF (a % 2) + (b % 2) > 0 THEN 1 ELSE 0) + 2 * BitOr(a \div 2, b \div 2)

Word(w) == 0 .. (Pow2(w) - 1)

bmask(w) == Pow2(w) - 1

Mask(v, w) == v % Pow2(w)

bits2(w) == w \div 2

\* for i in range(bits2): r <<= 2; r |= pat
RECURSIVE rawbits(_, _)
rawbits(n, pat) == IF n = 0 THEN 0 ELSE BitOr(rawbits(n - 1, pat) * 4, pat)

\* the two constants are computed once per width
Widths == 1 .. 8

rawbits5_of == [w \in Widths |-> rawbits(bits2(w), 1)]

rawbitsA_of == [w \in Widths |-> rawbits(bits2(w), 2)]

rawbits5(w) == rawbits5_of[w]

rawbitsA(w) == rawbitsA_of[w]

----------------------------------------------------------------------------
(* Bit-vector value model *)

\* inibits(inst, l, ini): bit i is (ini >> i) & 1
inibits(l, ini) == [i \in 1 .. l |-> ((ini \div Pow2(i - 1)) % 2) = 1]

\* autosat.decode_number: the bits of a vector reassembled, LSB first
RECURSIVE decode_number(_)
decode_number(v) ==
    IF Len(v) = 0 THEN 0
    ELSE (IF Head(v) THEN 1 ELSE 0) + 2 * decode_number(Tail(v))

B2I(x) == IF x THEN 1 ELSE 0

\* a full adder that drops its carry
full_adder_no_carry(a, b, carry_in) ==
    <<((B2I(a) + B2I(b) + B2I(carry_in)) % 2) = 1, FALSE>>

\* full_adder: r = a + b + carry_in; return r & 1, (r & 2) >> 1
full_adder(a, b, carry_in) ==
    LET r == B2I(a) + B2I(b) + B2I(carry_in)
    IN  <<(r % 2) = 1, ((r \div 2) % 2) = 1>>

\* the loop of add over zip(a, b), from position i on, with the carry so far
RECURSIVE add_loop(_, _, _, _)
add_loop(a, b, i, carry) ==
    IF i > Len(a) \/ i > Len(b) THEN <<>>
    ELSE LET fa == full_adder(a[i], b[i], carry)
         IN  <<fa[1]>> \o add_loop(a, b, i + 1, fa[2])

add(a, b) == add_loop(a, b, 1, FALSE)

xor(a, b) == [i \in 1 .. Len(a) |-> a[i] # b[i]]

and_(a, b) == [i \in 1 .. Len(a) |-> a[i] /\ b[i]]

\* result[i:] = add(result[i:], [a[i] & bit for bit in b[:-i]]), i = 1 .. n-1
\* (i is Python's index: a[i] is a[i + 1] here)
RECURSIVE mul_loop(_, _, _, _)
mul_loop(a, b, i, result) ==
    IF i >= Len(a) THEN result
    ELSE LET n == Len(a)
             addend == [j \in 1 .. (n - i) |-> a[i + 1] /\ b[j]]
             upper == add(SubSeq(result, i + 1, n), addend)
         IN  mul_loop(a, b, i + 1, SubSeq(result, 1, i) \o upper)

\* a multiplication whose loop starts one position late
mul_late(a, b) == mul_loop(a, b, 2, [j \in 1 .. Len(b) |-> a[1] /\ b[j]])

\* result = [a[0] & bit for bit in b]; for i in range(1, len(a)): ...
mul(a, b) == mul_loop(a, b, 1, [j \in 1 .. Len(b) |-> a[1] /\ b[j]])

----------------------------------------------------------------------------
(* The mixing core *)

\* BITR5 = inibits(inst, bits, rawbits5), BITRA = inibits(inst, bits, rawbitsA)
BITR5_of == [w \in Widths |-> inibits(w, rawbits5(w))]

BITRA_of == [w \in Widths |-> inibits(w, rawbitsA(w))]

BITR5(w) == BITR5_of[w]

BITRA(w) == BITRA_of[w]

\* a multiplier without the + 1
multiplier_even(lcg) == lcg * 2

\* ( lcg * 2 + 1 )
multiplier(lcg) == lcg * 2 + 1

\* seed = seed * ( lcg * 2 + 1 ); seed &= bmask
core_mul(w, seed, lcg) == Mask(seed * multiplier(lcg), w)

\* rs = seed>>bits2 | seed<<bits2; rs &= bmask
core_rot(w, seed1) ==
    Mask(BitOr(seed1 \div Pow2(bits2(w)), seed1 * Pow2(bits2(w))), w)

\* h += rs + rawbitsA; h &= bmask
core_hash(w, h, rs) == Mask(h + rs + rawbitsA(w), w)

\* lcg += seed + rawbits5; lcg &= bmask
core_lcg(w, lcg, seed1) == Mask(lcg + seed1 + rawbits5(w), w)

\* prvhash_core_calc, with bits = w
prvhash_core_calc(w, seed, lcg, h) ==
    LET seed1 == core_mul(w, seed, lcg)
        rs == core_rot(w, seed1)
        h1 == core_hash(w, h, rs)
        lcg1 == core_lcg(w, lcg, seed1)
    IN  [seed |-> BitXor(seed1, h1), lcg |-> lcg1, h |-> h1,
         out |-> BitXor(lcg1, rs)]

\* a symbolic multiplier without the + 1
sat_multiplier_even(lcg) == <<FALSE>> \o SubSeq(lcg, 1, Len(lcg) - 1)

\* [True] + lcg[:-1]
sat_multiplier(lcg) == <<TRUE>> \o SubSeq(lcg, 1, Len(lcg) - 1)

\* prvhash_core_sat, with bits = Len(seed)
prvhash_core_sat(seed, lcg, h) ==
    LET w == Len(seed)
        seed1 == mul(seed, sat_multiplier(lcg))
        rs == SubSeq(seed1, bits2(w) + 1, w) \o SubSeq(seed1, 1, bits2(w))
        h1 == add(h, add(rs, BITRA(w)))
        lcg1 == add(lcg, add(seed1, BITR5(w)))
    IN  [seed |-> xor(seed1, h1), lcg |-> lcg1, h |-> h1,
         out |-> xor(lcg1, rs)]

dec(r) == [seed |-> decode_number(r.seed), lcg |-> decode_number(r.lcg),
           h |-> decode_number(r.h), out |-> decode_number(r.out)]

----------------------------------------------------------------------------
(* Arithmetic on constant bit-vectors: add and mul applied to inibits of     *)
(* two integers of one width.                                              *)

NoRec == [none |-> TRUE]

ArithInit ==
    /\ pc = "args"
    /\ bits \in 1 .. MaxWidth
    /\ \E a \in Word(bits), b \in Word(bits) : par = [a |-> a, b |-> b]
    /\ calc = NoRec
    /\ sat = <<>>
    /\ obs = <<>>
    /\ hist = NoRec

DoAdd ==
    /\ pc = "args"
    /\ sat' = add(inibits(bits, par.a), inibits(bits, par.b))
    /\ pc' = "added"
    /\ UNCHANGED <<bits, par, calc, obs, hist>>

DoMul ==
    /\ pc = "args"
    /\ sat' = mul(inibits(bits, par.a), inibits(bits, par.b))
    /\ pc' = "multiplied"
    /\ UNCHANGED <<bits, par, calc, obs, hist>>

ArithNext == DoAdd \/ DoMul

SpecArith == ArithInit /\ [][ArithNext]_vars

\* C3: add of the constant bit-vectors of a and b decodes to (a + b) mod
\* 2^width and has the width of its operands.
AdderCorrect ==
    pc = "added" =>
        /\ decode_number(sat) = (par.a + par.b) % Pow2(bits)
        /\ Len(sat) = bits

\* an addition that carries out of the top bit has been performed
AdderWitness ==
    /\ pc = "added"
    /\ bits = MaxWidth
    /\ par.a + par.b >= Pow2(bits)
    /\ decode_number(sat) = par.a + par.b - Pow2(bits)
    /\ decode_number(sat) > 0

\* C4: mul of the constant bit-vectors of a and b decodes to (a * b) mod
\* 2^width and has width bits.
MultiplierCorrect ==
    pc = "multiplied" =>
        /\ decode_number(sat) = (par.a * par.b) % Pow2(bits)
        /\ Len(sat) = bits

\* a multiplication whose product overflows the width has been performed
MultiplierWitness ==
    /\ pc = "multiplied"
    /\ bits = MaxWidth
    /\ par.a * par.b >= Pow2(bits)
    /\ decode_number(sat) > 0
    /\ decode_number(sat) = (par.a * par.b) % Pow2(bits)

----------------------------------------------------------------------------
(* The mixing core called repeatedly on its own results, in its concrete   *)
(* form on integers and in its symbolic form on the constant bit-vectors   *)
(* of the same integers.                                                   *)

EvenWidths == {2 * k : k \in 1 .. MaxHalfBits}

Triples(w) == [seed : Word(w), lcg : Word(w), h : Word(w)]

\* the words a sequence of calls starts from: all of them up to 2*MaxEdge
InputWords(w) == {v \in Word(w) : v < MaxEdge \/ v >= Pow2(w) - MaxEdge}

InputTriples(w) == [seed : InputWords(w), lcg : InputWords(w), h : InputWords(w)]

StateOf(r) == [seed |-> r.seed, lcg |-> r.lcg, h |-> r.h]

\* a triple of w-bit words as one number
TripleCode(w, r) == r.seed + Pow2(w) * r.lcg + Pow2(2 * w) * r.h

\* the state map of the concrete step over all triples of w-bit words
CoreImage(w) ==
    {TripleCode(w, prvhash_core_calc(w, t[1], t[2], t[3])) :
        t \in Word(w) \X Word(w) \X Word(w)}

ImageCard == [w \in EvenWidths |-> Cardinality(CoreImage(w))]

CoreInit ==
    /\ pc = "start"
    /\ bits \in EvenWidths
    /\ par = NoRec
    /\ \E t \in InputTriples(bits) :
          /\ calc = [seed |-> t.seed, lcg |-> t.lcg, h |-> t.h, out |-> 0]
          /\ sat = [seed |-> inibits(bits, t.seed), lcg |-> inibits(bits, t.lcg),
                    h |-> inibits(bits, t.h), out |-> inibits(bits, 0)]
          /\ hist = [prev |-> t, calls |-> 0]
    /\ obs = <<>>

\* one call of the step in both forms, each fed its own previous results
CoreCall ==
    /\ pc \in {"start", "stepped"}
    /\ hist.calls < MaxCalls
    /\ calc' = prvhash_core_calc(bits, calc.seed, calc.lcg, calc.h)
    /\ sat' = prvhash_core_sat(sat.seed, sat.lcg, sat.h)
    /\ hist' = [prev |-> StateOf(calc), calls |-> hist.calls + 1]
    /\ pc' = "stepped"
    /\ UNCHANGED <<bits, par, obs>>

CoreNext == CoreCall

SpecCore == CoreInit /\ [][CoreNext]_vars

\* C1: at every step of a sequence of calls the symbolic step on constant
\* bit-vectors decodes to the seed, lcg, hash word and output of the
\* concrete step.
MirrorProperty ==
    /\ dec(sat) = calc
    /\ Len(sat.seed) = bits /\ Len(sat.lcg) = bits
    /\ Len(sat.h) = bits /\ Len(sat.out) = bits

\* a call at the largest width whose results are all non-zero and whose
\* multiplication overflowed
MirrorWitness ==
    /\ pc = "stepped"
    /\ hist.calls = MaxCalls
    /\ bits = 2 * MaxHalfBits
    /\ hist.prev.seed * (hist.prev.lcg * 2 + 1) >= Pow2(bits)
    /\ calc.seed > 0 /\ calc.lcg > 0 /\ calc.h > 0 /\ calc.out > 0
    /\ dec(sat) = calc

\* C9: the multiplier 2*lcg+1 is odd modulo 2^width, and the state map of
\* the concrete step is a bijection on triples of width-bit words: its image
\* over all triples has as many elements as there are triples.
UpdateInvertible ==
    pc = "stepped" =>
        /\ Mask(multiplier(hist.prev.lcg), bits) % 2 = 1
        /\ Head(sat_multiplier(inibits(bits, hist.prev.lcg)))
        /\ ImageCard[bits] = Pow2(3 * bits)

\* a call with a multiplier 2*lcg+1 that exceeds the width, at the largest width
InvertibleWitness ==
    /\ pc = "stepped"
    /\ bits = 2 * MaxHalfBits
    /\ hist.prev.lcg * 2 + 1 > Pow2(bits)
    /\ hist.prev.seed > 0
    /\ StateOf(calc) # hist.prev

----------------------------------------------------------------------------
(* The step schedule of a run of either script: the concrete run, then the *)
(* symbolic run with its bindings.  Each action is one iteration of one    *)
(* loop of the script.  A call of the step is logged as                    *)
(*   [ph: the loop, i: its iteration, core: 0 for the main core and 1..4   *)
(*    for the firewall cores, idx: the element of the hash array passed,   *)
(*    inj: the nonce word XORed into seed and lcg right before, or -1]     *)
(* and an observation as [round, lane]: the round of the loop and the lane *)
(* (0 for out1 xor out2, 1..4 for outf1..outf4) whose output it holds.     *)

init_count == 5     \* for i in range(5)

fw_count == 5       \* calc_h2 = [0,0,0,0,0]

\* calc_h[calc_x%hc], h[x % hc]
hash_index(x, hc) == x % hc

\* a first loop that advanced the index counter like the other loops
x_after_init_advancing(x) == x + 1

\* the first loop leaves calc_x / x alone
x_after_init(x) == x

\* calc_x += 1, x += 1
x_after_call(x) == x + 1

\* an injection on even instead of odd iterations
inject_now_even(i, ivpos, ivlen) == (i % 2 = 0) /\ ivpos < ivlen

\* if((i&1)==1 and ivpos < ivlen)
inject_now(i, ivpos, ivlen) == (i % 2 = 1) /\ ivpos < ivlen

\* firewall cores that each kept to one element of their own
fw_index_fixed(x2, j) == j % fw_count

\* calc_h2[(calc_x2+j)%5], h2[(x2+j)%5] for firewall core j+1
fw_index(x2, j) == (x2 + j) % fw_count

\* a binding that forgot the discarded rounds
bind_index_from_zero(k, fc, j) == k * 4 + j

\* obs[(k-fc)*4+j]
bind_index(k, fc, j) == (k - fc) * 4 + j

\* if(i>=fc), if(k>=fc)
observed(i, fc) == i >= fc

Call(ph, i, core, idx, inj) ==
    [ph |-> ph, i |-> i, core |-> core, idx |-> idx, inj |-> inj]

\* the four firewall calls of a round
fw_calls(i, x2) ==
    [j \in 1 .. 4 |-> Call("obs", i, j, fw_index(x2, j - 1), -1)]

Counters0 == [i |-> 0, x |-> 0, x2 |-> 0, ivpos |-> 0]

SchedInit ==
    /\ pc = "calc_init"
    /\ bits = 0
    /\ \E hc \in 1 .. MaxHc, num_obs \in 1 .. MaxNumObs :
          \/ par = [variant |-> "A", hc |-> hc, num_obs |-> num_obs,
                    fc |-> 0, ivlen |-> 0]
          \/ \E fc \in 0 .. MaxFc, ivlen \in 0 .. MaxIvlen :
                par = [variant |-> "B", hc |-> hc, num_obs |-> num_obs,
                       fc |-> fc, ivlen |-> ivlen]
    /\ calc = Counters0
    /\ sat = Counters0
    /\ obs = <<>>
    /\ hist = [ccalls |-> <<>>, scalls |-> <<>>, binds |-> <<>>]

\* calc: for i in range(5): one call, calc_x left alone
CalcInitLoop ==
    /\ pc = "calc_init"
    /\ hist' = [hist EXCEPT !.ccalls =
          Append(@, Call("init", calc.i, 0, hash_index(calc.x, par.hc), -1))]
    /\ calc' = [calc EXCEPT !.i = IF calc.i + 1 = init_count THEN 0 ELSE calc.i + 1,
                          !.x = x_after_init(calc.x)]
    /\ pc' = IF calc.i + 1 < init_count THEN pc
             ELSE IF par.variant = "B" THEN "calc_nonce" ELSE "calc_warm"
    /\ UNCHANGED <<bits, par, sat, obs>>

\* calc, Variant B: for i in range(hc): on odd i a nonce word XORed into seed
\* and lcg while one is left, then one call, calc_x += 1
CalcNonceLoop ==
    /\ pc = "calc_nonce"
    /\ LET inj == inject_now(calc.i, calc.ivpos, par.ivlen)
       IN  /\ hist' = [hist EXCEPT !.ccalls = Append(@,
                   Call("nonce", calc.i, 0, hash_index(calc.x, par.hc),
                        IF inj THEN calc.ivpos ELSE -1))]
           /\ calc' = [calc EXCEPT !.i = IF calc.i + 1 = par.hc THEN 0 ELSE calc.i + 1,
                                 !.x = x_after_call(calc.x),
                                 !.ivpos = IF inj THEN calc.ivpos + 1 ELSE calc.ivpos]
    /\ pc' = IF calc.i + 1 < par.hc THEN pc ELSE "calc_warm"
    /\ UNCHANGED <<bits, par, sat, obs>>

\* calc: for i in range(hc+1): one call, calc_x += 1
CalcWarmLoop ==
    /\ pc = "calc_warm"
    /\ hist' = [hist EXCEPT !.ccalls =
          Append(@, Call("warm", calc.i, 0, hash_index(calc.x, par.hc), -1))]
    /\ calc' = [calc EXCEPT !.i = IF calc.i + 1 = par.hc + 1 THEN 0 ELSE calc.i + 1,
                          !.x = x_after_call(calc.x)]
    /\ pc' = IF calc.i + 1 < par.hc + 1 THEN pc ELSE "calc_obs"
    /\ UNCHANGED <<bits, par, sat, obs>>

\* Variant A, for i in range(num_obs): two calls, calc_x += 1 after each;
\* obs.append(out1^out2)
CalcObsLoopA ==
    /\ pc = "calc_obs"
    /\ par.variant = "A"
    /\ hist' = [hist EXCEPT !.ccalls = @ \o
          <<Call("obs", calc.i, 0, hash_index(calc.x, par.hc), -1),
            Call("obs", calc.i, 0,
                 hash_index(x_after_call(calc.x), par.hc), -1)>>]
    /\ obs' = Append(obs, [round |-> calc.i, lane |-> 0])
    /\ calc' = [calc EXCEPT !.i = calc.i + 1,
                            !.x = x_after_call(x_after_call(calc.x))]
    /\ pc' = IF calc.i + 1 < par.num_obs THEN pc ELSE "sat_init"
    /\ UNCHANGED <<bits, par, sat>>

\* Variant B, for i in range(fc+num_obs): one call of the main core,
\* calc_x += 1, one call of each firewall core, calc_x2 += 1;
\* if(i>=fc): obs.append(outf1) .. obs.append(outf4)
CalcObsLoopB ==
    /\ pc = "calc_obs"
    /\ par.variant = "B"
    /\ hist' = [hist EXCEPT !.ccalls = @ \o
          <<Call("obs", calc.i, 0, hash_index(calc.x, par.hc), -1)>>
          \o fw_calls(calc.i, calc.x2)]
    /\ obs' = IF observed(calc.i, par.fc)
              THEN obs \o [j \in 1 .. 4 |-> [round |-> calc.i, lane |-> j]]
              ELSE obs
    /\ calc' = [calc EXCEPT !.i = calc.i + 1, !.x = x_after_call(calc.x),
                            !.x2 = calc.x2 + 1]
    /\ pc' = IF calc.i + 1 < par.fc + par.num_obs THEN pc ELSE "sat_init"
    /\ UNCHANGED <<bits, par, sat>>

\* sat: for i in range(5): one call, x left alone
SatInitLoop ==
    /\ pc = "sat_init"
    /\ hist' = [hist EXCEPT !.scalls =
          Append(@, Call("init", sat.i, 0, hash_index(sat.x, par.hc), -1))]
    /\ sat' = [sat EXCEPT !.i = IF sat.i + 1 = init_count THEN 0 ELSE sat.i + 1,
                          !.x = x_after_init(sat.x)]
    /\ pc' = IF sat.i + 1 < init_count THEN pc
             ELSE IF par.variant = "B" THEN "sat_nonce" ELSE "sat_warm"
    /\ UNCHANGED <<bits, par, calc, obs>>

\* sat, Variant B: for i in range(hc): on odd i a nonce word XORed into seed
\* and lcg while one is left, then one call, x += 1
SatNonceLoop ==
    /\ pc = "sat_nonce"
    /\ LET inj == inject_now(sat.i, sat.ivpos, par.ivlen)
       IN  /\ hist' = [hist EXCEPT !.scalls = Append(@,
                   Call("nonce", sat.i, 0, hash_index(sat.x, par.hc),
                        IF inj THEN sat.ivpos ELSE -1))]
           /\ sat' = [sat EXCEPT !.i = IF sat.i + 1 = par.hc THEN 0 ELSE sat.i + 1,
                                 !.x = x_after_call(sat.x),
                                 !.ivpos = IF inj THEN sat.ivpos + 1 ELSE sat.ivpos]
    /\ pc' = IF sat.i + 1 < par.hc THEN pc ELSE "sat_warm"
    /\ UNCHANGED <<bits, par, calc, obs>>

\* sat: for i in range(hc+1): one call, x += 1
SatWarmLoop ==
    /\ pc = "sat_warm"
    /\ hist' = [hist EXCEPT !.scalls =
          Append(@, Call("warm", sat.i, 0, hash_index(sat.x, par.hc), -1))]
    /\ sat' = [sat EXCEPT !.i = IF sat.i + 1 = par.hc + 1 THEN 0 ELSE sat.i + 1,
                          !.x = x_after_call(sat.x)]
    /\ pc' = IF sat.i + 1 < par.hc + 1 THEN pc ELSE "sat_obs"
    /\ UNCHANGED <<bits, par, calc, obs>>

\* Variant A, for k in range(num_obs): two calls, x += 1 after each;
\* out = xor(out1, out2); b.make_equal(bool((obs[k] >> i) & 1)) for its bits
SatObsLoopA ==
    /\ pc = "sat_obs"
    /\ par.variant = "A"
    /\ hist' = [hist EXCEPT
          !.scalls = @ \o
             <<Call("obs", sat.i, 0, hash_index(sat.x, par.hc), -1),
               Call("obs", sat.i, 0,
                    hash_index(x_after_call(sat.x), par.hc), -1)>>,
          !.binds = Append(@, [round |-> sat.i, lane |-> 0,
                               index |-> sat.i])]
    /\ sat' = [sat EXCEPT !.i = sat.i + 1,
                          !.x = x_after_call(x_after_call(sat.x))]
    /\ pc' = IF sat.i + 1 < par.num_obs THEN pc ELSE "solve"
    /\ UNCHANGED <<bits, par, calc, obs>>

\* Variant B, for k in range(fc+num_obs): one call of the main core, x += 1,
\* one call of each firewall core, x2 += 1;
\* if(k>=fc): the bits of outf1..outf4 made equal to obs[(k-fc)*4+0..3]
SatObsLoopB ==
    /\ pc = "sat_obs"
    /\ par.variant = "B"
    /\ hist' = [hist EXCEPT
          !.scalls = @ \o
             <<Call("obs", sat.i, 0, hash_index(sat.x, par.hc), -1)>>
             \o fw_calls(sat.i, sat.x2),
          !.binds = IF observed(sat.i, par.fc)
                    THEN @ \o [j \in 1 .. 4 |->
                            [round |-> sat.i, lane |-> j,
                             index |-> bind_index(sat.i, par.fc, j - 1)]]
                    ELSE @]
    /\ sat' = [sat EXCEPT !.i = sat.i + 1, !.x = x_after_call(sat.x),
                          !.x2 = sat.x2 + 1]
    /\ pc' = IF sat.i + 1 < par.fc + par.num_obs THEN pc ELSE "solve"
    /\ UNCHANGED <<bits, par, calc, obs>>

SchedNext ==
    \/ CalcInitLoop
    \/ CalcNonceLoop
    \/ CalcWarmLoop
    \/ CalcObsLoopA
    \/ CalcObsLoopB
    \/ SatInitLoop
    \/ SatNonceLoop
    \/ SatWarmLoop
    \/ SatObsLoopA
    \/ SatObsLoopB

SpecSched == SchedInit /\ [][SchedNext]_vars

----------------------------------------------------------------------------
(* Properties of the schedule *)

IsPrefix(a, b) ==
    /\ Len(a) <= Len(b)
    /\ \A n \in 1 .. Len(a) : a[n] = b[n]

NumObserved == IF par.variant = "A" THEN par.num_obs ELSE 4 * par.num_obs

BindingsMatch ==
    \A n \in 1 .. Len(hist.binds) :
        LET b == hist.binds[n]
        IN  /\ b.index >= 0 /\ b.index < Len(obs)
            /\ obs[b.index + 1] = [round |-> b.round, lane |-> b.lane]

\* C6: the symbolic run makes the calls of the concrete run, in the same
\* order, on the same core and hash index and with the same nonce word
\* injected before; every binding equates the output of a round and lane with
\* the observation the concrete run took at that round and lane; at the end
\* the number of calls is the same, num_obs (Variant A) or 4*num_obs
\* (Variant B) observations exist and each is bound exactly once.
IdenticalSchedule ==
    /\ IsPrefix(hist.scalls, hist.ccalls)
    /\ BindingsMatch
    /\ pc = "solve" =>
          /\ hist.scalls = hist.ccalls
          /\ Len(obs) = NumObserved
          /\ Len(hist.binds) = Len(obs)
          /\ \A m \in 0 .. (Len(obs) - 1) :
                Cardinality({n \in 1 .. Len(hist.binds) :
                                hist.binds[n].index = m}) = 1

\* a finished run of Variant B with discarded rounds, nonce words injected
\* and several observed rounds
IdenticalScheduleWitness ==
    /\ pc = "solve"
    /\ par.variant = "B"
    /\ par.fc = MaxFc /\ par.num_obs = MaxNumObs /\ par.hc = MaxHc
    /\ sat.ivpos >= 2
    /\ Len(hist.binds) = 4 * MaxNumObs
    /\ hist.scalls = hist.ccalls

\* the hash indices of the calls of the main core, in order
main_indices(calls) ==
    LET main == SelectSeq(calls, LAMBDA c : c.core = 0)
    IN  [n \in 1 .. Len(main) |-> main[n].idx]

\* C7 as stated: the n-th call of the main core (0-based) is on hash element
\* n mod hc, in the concrete and in the symbolic run.
RoundRobinEveryCall ==
    /\ \A n \in 1 .. Len(main_indices(hist.ccalls)) :
          main_indices(hist.ccalls)[n] = (n - 1) % par.hc
    /\ \A n \in 1 .. Len(main_indices(hist.scalls)) :
          main_indices(hist.scalls)[n] = (n - 1) % par.hc

expected_index(n) ==
    IF n < init_count THEN 0 ELSE (n - init_count) % par.hc

\* C7 amended: the first five calls of a run are all on hash element 0, the
\* index counter is advanced after every later call of the main core, so
\* the n-th call (0-based) is on element 0 for n < 5 and on element
\* (n - 5) mod hc from then on.
RoundRobinAfterInit ==
    /\ \A n \in 1 .. Len(main_indices(hist.ccalls)) :
          main_indices(hist.ccalls)[n] = expected_index(n - 1)
    /\ \A n \in 1 .. Len(main_indices(hist.scalls)) :
          main_indices(hist.scalls)[n] = expected_index(n - 1)

\* a finished run with hc >= 2 in which the index has wrapped around
RoundRobinWitness ==
    /\ pc = "solve"
    /\ par.hc = MaxHc /\ par.hc >= 2
    /\ sat.x > 2 * par.hc
    /\ \E n \in 1 .. Len(main_indices(hist.scalls)) :
          /\ n - 1 >= init_count + par.hc
          /\ main_indices(hist.scalls)[n] # 0
          /\ main_indices(hist.scalls)[n] # (n - 1) % par.hc

\* the calls of the nonce pass of a run
nonce_pass(calls) == SelectSeq(calls, LAMBDA c : c.ph = "nonce")

min(a, b) == IF a < b THEN a ELSE b

\* C10 as stated: nonce word j is injected right before step 2j+1 of the
\* pass, nothing before an even step, and when the pass has ended all ivlen
\* words have been injected.
NonceAllInjected ==
    /\ \A n \in 1 .. Len(nonce_pass(hist.ccalls)) :
          LET c == nonce_pass(hist.ccalls)[n]
          IN  /\ c.inj # -1 => c.i = 2 * c.inj + 1
              /\ c.i % 2 = 0 => c.inj = -1
    /\ \A n \in 1 .. Len(nonce_pass(hist.scalls)) :
          LET c == nonce_pass(hist.scalls)[n]
          IN  /\ c.inj # -1 => c.i = 2 * c.inj + 1
              /\ c.i % 2 = 0 => c.inj = -1
    /\ (par.variant = "B" /\ pc \notin {"calc_init", "calc_nonce"})
          => calc.ivpos = par.ivlen
    /\ (par.variant = "B" /\ pc \in {"sat_warm", "sat_obs", "solve"})
          => sat.ivpos = par.ivlen

expected_inj(i) ==
    IF i % 2 = 1 /\ (i - 1) \div 2 < par.ivlen THEN (i - 1) \div 2 ELSE -1

\* C10 amended: step i of the pass is preceded by the injection of nonce
\* word (i-1)/2 exactly when i is odd and that word exists, so words are
\* injected once each and in order, and the pass, which has hc steps, ends
\* with min(ivlen, hc div 2) words injected: all of them only if
\* ivlen <= hc div 2.
NonceInjectedInOrder ==
    /\ \A n \in 1 .. Len(nonce_pass(hist.ccalls)) :
          LET c == nonce_pass(hist.ccalls)[n]
          IN  c.i = n - 1 /\ c.inj = expected_inj(c.i)
    /\ \A n \in 1 .. Len(nonce_pass(hist.scalls)) :
          LET c == nonce_pass(hist.scalls)[n]
          IN  c.i = n - 1 /\ c.inj = expected_inj(c.i)
    /\ (par.variant = "B" /\ pc \notin {"calc_init", "calc_nonce"})
          => /\ calc.ivpos = min(par.ivlen, par.hc \div 2)
             /\ Len(nonce_pass(hist.ccalls)) = par.hc
    /\ (par.variant = "B" /\ pc \in {"sat_warm", "sat_obs", "solve"})
          => /\ sat.ivpos = min(par.ivlen, par.hc \div 2)
             /\ Len(nonce_pass(hist.scalls)) = par.hc

\* a finished pass that injected two nonce words, all there were
NonceWitness ==
    /\ pc = "solve"
    /\ par.variant = "B"
    /\ par.ivlen = 2 /\ par.hc = 4
    /\ calc.ivpos = 2 /\ sat.ivpos = 2
    /\ nonce_pass(hist.scalls)[2].inj = 0
    /\ nonce_pass(hist.scalls)[4].inj = 1

\* the position in calls of the last call of a firewall core before
\* position n that was on the hash element of call n, or 0
last_writer(calls, n) ==
    LET w == {m \in 1 .. (n - 1) :
                 calls[m].core >= 1 /\ calls[m].idx = calls[n].idx}
    IN  IF w = {} THEN 0 ELSE CHOOSE m \in w : \A k \in w : k <= m

\* C8 as stated: the element a firewall core reads was never written by
\* another firewall core.
firewall_independent(calls) ==
    \A n \in 1 .. Len(calls) : \A m \in 1 .. (n - 1) :
        (calls[n].core >= 1 /\ calls[m].core >= 1
            /\ calls[m].idx = calls[n].idx)
        => calls[m].core = calls[n].core

FirewallIndependent ==
    firewall_independent(hist.ccalls) /\ firewall_independent(hist.scalls)

\* the sharing of the five elements of h2 among the four cores
firewall_chained(calls) ==
    \A n \in 1 .. Len(calls) :
        calls[n].core >= 1 =>
            LET c == calls[n]
                m == last_writer(calls, n)
            IN  IF c.core < 4 /\ c.i >= 1
                THEN m # 0 /\ calls[m].core = c.core + 1
                           /\ calls[m].i = c.i - 1
                ELSE IF c.core = 4 /\ c.i >= 2
                THEN m # 0 /\ calls[m].core = 1 /\ calls[m].i = c.i - 2
                ELSE m = 0

\* C8 amended: the four firewall cores have a seed and an lcg of their own
\* but share the five elements of h2: from round 1 on core j (j = 1, 2, 3)
\* reads the element core j+1 wrote in the round before, and from round 2 on
\* core 4 reads the element core 1 wrote two rounds before; only in the
\* remaining calls is the element read still unwritten.
FirewallChained ==
    firewall_chained(hist.ccalls) /\ firewall_chained(hist.scalls)

\* a round after the second, in which every core has read an element that
\* another core wrote
FirewallWitness ==
    /\ par.variant = "B"
    /\ \E n \in 1 .. Len(hist.ccalls) :
          /\ hist.ccalls[n].core = 3
          /\ hist.ccalls[n].i >= 2
          /\ last_writer(hist.ccalls, n) # 0
          /\ hist.ccalls[last_writer(hist.ccalls, n)].core = 4
    /\ \E n \in 1 .. Len(hist.scalls) :
          /\ hist.scalls[n].core = 4
          /\ hist.scalls[n].i >= 2
          /\ last_writer(hist.scalls, n) # 0
          /\ hist.scalls[last_writer(hist.scalls, n)].core = 1

----------------------------------------------------------------------------
(* The concrete run of t642_sat.py (Variant B) on values, made twice side  *)
(* by side: once with a nonce vector and once with a permutation or a      *)
(* proper prefix of it, everything else being the script's parameters.     *)

t642_bits == 6

t642_hci == 2

t642_ivlen == 4

t642_seed_i == 4

t642_hcv == <<3, 14, 3, 13, 14, 4, 2, 15, 2, 5, 6, 11, 9, 1, 11, 5, 8, 6, 10,
              7, 5, 6, 3, 10, 3, 0, 2, 9, 9, 12, 15, 11>>

t642_iv == <<15, 9, 4, 6>>

t642_hc == 16

t642_fc == 15

t642_num_obs == 16

\* calc_h: the first hci elements from hcv, the others 0
calc_h_init(w, hc, hci, hcv) ==
    [i \in 1 .. hc |-> IF i - 1 < hci THEN Mask(hcv[i], w) ELSE 0]

\* the state of the script before its first loop
t642_start(w, hc, hci, seed_i, hcv) ==
    [seed |-> Mask(seed_i, w), lcg |-> 0, h |-> calc_h_init(w, hc, hci, hcv),
     seedF |-> <<0, 0, 0, 0>>, lcgF |-> <<0, 0, 0, 0>>,
     h2 |-> [j \in 1 .. fw_count |-> 0],
     x |-> 0, x2 |-> 0, ivpos |-> 0, out1 |-> 0, outf |-> <<0, 0, 0, 0>>]

\* calc_seed, calc_lcg, calc_h[calc_x%hc], out1 =
\*     prvhash_core_calc(calc_seed, calc_lcg, calc_h[calc_x%hc])
main_call(c, w, hc) ==
    LET idx == hash_index(c.x, hc) + 1
        r == prvhash_core_calc(w, c.seed, c.lcg, c.h[idx])
    IN  [c EXCEPT !.seed = r.seed, !.lcg = r.lcg, !.h[idx] = r.h,
                  !.out1 = r.out]

\* an injection that takes the first nonce word every time
inject_first(c, w, iv) ==
    [c EXCEPT !.seed = BitXor(c.seed, Mask(iv[1], w)),
              !.lcg = BitXor(c.lcg, Mask(iv[1], w)),
              !.ivpos = c.ivpos + 1]

\* calc_seed ^= iv[ivpos]&bmask; calc_lcg ^= iv[ivpos]&bmask; ivpos += 1
inject(c, w, iv) ==
    [c EXCEPT !.seed = BitXor(c.seed, Mask(iv[c.ivpos + 1], w)),
              !.lcg = BitXor(c.lcg, Mask(iv[c.ivpos + 1], w)),
              !.ivpos = c.ivpos + 1]

\* one iteration of the nonce pass
nonce_iter(c, i, w, hc, iv, ivlen) ==
    LET c1 == IF inject_now(i, c.ivpos, ivlen) THEN inject(c, w, iv) ELSE c
    IN  [main_call(c1, w, hc) EXCEPT !.x = x_after_call(c1.x)]

\* the call of firewall core j on its seed, its lcg and its element of h2
fw_call(c, w, j) ==
    LET idx == fw_index(c.x2, j - 1) + 1
        r == prvhash_core_calc(w, c.seedF[j], c.lcgF[j], c.h2[idx])
    IN  [c EXCEPT !.seedF[j] = r.seed, !.lcgF[j] = r.lcg, !.h2[idx] = r.h,
                  !.outf[j] = r.out]

\* one round: the main core, calc_seed4 ^= out1, the four firewall cores
round_iter(c, w, hc) ==
    LET c0 == [main_call(c, w, hc) EXCEPT !.x = x_after_call(c.x)]
        c1 == [c0 EXCEPT !.seedF[4] = BitXor(c0.seedF[4], c0.out1)]
        c4 == fw_call(fw_call(fw_call(fw_call(c1, w, 1), w, 2), w, 3), w, 4)
    IN  [c4 EXCEPT !.x2 = c4.x2 + 1]

Perms(v) ==
    {[i \in 1 .. Len(v) |-> v[q[i]]] :
        q \in {f \in [1 .. Len(v) -> 1 .. Len(v)] :
                 \A a, b \in 1 .. Len(v) : a # b => f[a] # f[b]}}

ProperPrefixes(v) == {SubSeq(v, 1, n) : n \in 0 .. (Len(v) - 1)}

\* the nonce vectors of the first run: the script's, and the script's with
\* its last word zero
NonceChoices == {t642_iv, [t642_iv EXCEPT ![t642_ivlen] = 0]}

NonceInit ==
    /\ pc = "calc_init"
    /\ bits = t642_bits
    /\ \E iv1 \in NonceChoices :
          \E iv2 \in (Perms(iv1) \cup ProperPrefixes(iv1)) \ {iv1} :
             par = [hc |-> t642_hc, hci |-> t642_hci, fc |-> t642_fc,
                    num_obs |-> t642_num_obs, seed_i |-> t642_seed_i,
                    hcv |-> t642_hcv, iv |-> <<iv1, iv2>>,
                    ivlen |-> <<Len(iv1), Len(iv2)>>, i |-> 0]
    /\ calc = [r \in 1 .. 2 |->
                 t642_start(t642_bits, t642_hc, t642_hci, t642_seed_i, t642_hcv)]
    /\ sat = NoRec
    /\ obs = <<<<>>, <<>>>>
    /\ hist = NoRec

\* for i in range(5), in both runs
NonceRunInit ==
    /\ pc = "calc_init"
    /\ calc' = [r \in 1 .. 2 |->
                  [main_call(calc[r], bits, par.hc)
                      EXCEPT !.x = x_after_init(calc[r].x)]]
    /\ par' = [par EXCEPT !.i = IF par.i + 1 = init_count THEN 0 ELSE par.i + 1]
    /\ pc' = IF par.i + 1 < init_count THEN pc ELSE "calc_nonce"
    /\ UNCHANGED <<bits, sat, obs, hist>>

\* for i in range(hc), in both runs, each with its nonce vector
NonceRunPass ==
    /\ pc = "calc_nonce"
    /\ calc' = [r \in 1 .. 2 |->
                  nonce_iter(calc[r], par.i, bits, par.hc,
                             par.iv[r], par.ivlen[r])]
    /\ par' = [par EXCEPT !.i = IF par.i + 1 = par.hc THEN 0 ELSE par.i + 1]
    /\ pc' = IF par.i + 1 < par.hc THEN pc ELSE "calc_warm"
    /\ UNCHANGED <<bits, sat, obs, hist>>

\* for i in range(hc+1), in both runs
NonceRunWarm ==
    /\ pc = "calc_warm"
    /\ calc' = [r \in 1 .. 2 |->
                  [main_call(calc[r], bits, par.hc)
                      EXCEPT !.x = x_after_call(calc[r].x)]]
    /\ par' = [par EXCEPT !.i = IF par.i + 1 = par.hc + 1 THEN 0 ELSE par.i + 1]
    /\ pc' = IF par.i + 1 < par.hc + 1 THEN pc ELSE "calc_obs"
    /\ UNCHANGED <<bits, sat, obs, hist>>

\* for i in range(fc+num_obs), in both runs; the four outputs appended to
\* obs if(i>=fc)
NonceRunRound ==
    /\ pc = "calc_obs"
    /\ calc' = [r \in 1 .. 2 |-> round_iter(calc[r], bits, par.hc)]
    /\ obs' = [r \in 1 .. 2 |->
                 IF observed(par.i, par.fc) THEN obs[r] \o calc'[r].outf
                 ELSE obs[r]]
    /\ par' = [par EXCEPT !.i = par.i + 1]
    /\ pc' = IF par.i + 1 < par.fc + par.num_obs THEN pc ELSE "done"
    /\ UNCHANGED <<bits, sat, hist>>

NonceNext == NonceRunInit \/ NonceRunPass \/ NonceRunWarm \/ NonceRunRound

SpecNonce == NonceInit /\ [][NonceNext]_vars

\* the words a run injects: those of its nonce vector, masked, up to the
\* hc div 2 odd iterations of the pass, a missing word counting as zero
injected_words(r) ==
    [j \in 1 .. (par.hc \div 2) |->
        IF j <= par.ivlen[r] THEN Mask(par.iv[r][j], bits) ELSE 0]

\* C5 as stated: a permutation of the nonce vector that differs from it, or
\* a proper prefix of it, gives another list of 4*num_obs observations.
NonceSensitive ==
    pc = "done" => obs[1] # obs[2]

\* C5 amended: with the script's parameters and nonce vector every other
\* permutation and every proper prefix of the nonce changes the list of
\* 4*num_obs observations; in general two nonce vectors that inject the same
\* words (a prefix that only drops zero words) give the same list.
NonceSensitiveReference ==
    pc = "done" =>
        /\ Len(obs[1]) = 4 * par.num_obs /\ Len(obs[2]) = 4 * par.num_obs
        /\ par.iv[1] = t642_iv => obs[1] # obs[2]
        /\ injected_words(1) = injected_words(2) => obs[1] = obs[2]

\* the two runs have ended, the second on a permutation of the script's
\* nonce, with all observations taken and the last ones different
NonceSensitiveWitness ==
    /\ pc = "done"
    /\ par.iv[1] = t642_iv
    /\ par.iv[2] = <<6, 4, 9, 15>>
    /\ Len(obs[1]) = 4 * t642_num_obs
    /\ obs[1][4 * t642_num_obs] # obs[2][4 * t642_num_obs]

----------------------------------------------------------------------------
(* The run of gradilac_sat.py (Variant A) on values with the script's      *)
(* parameters: the concrete run that takes the observations, the symbolic  *)
(* run that binds them, and the solver.  The solver is any assignment of   *)
(* the unknowns start_seed, start_lcg, start_h that satisfies the          *)
(* bindings; its search decides the words of the run in an order that      *)
(* lets it discard early: the seed and lcg before the first observed       *)
(* round, the two hash words, the later rounds, and then backwards the     *)
(* words before each earlier call down to the unknowns.                    *)

gradilac_bits == 6

gradilac_hci == 2

gradilac_seed_i == 4

gradilac_lcg_i == 5

gradilac_hcv == <<13, 4, 13, 3, 4, 14, 12, 5, 12, 15, 6, 1, 9, 13, 1, 15, 12,
                  6, 11, 4, 8, 5, 9, 12, 13, 0, 2, 1, 9, 12, 15, 11>>

gradilac_hc == gradilac_hci

gradilac_num_obs == 64

\* the state of the script before its first loop
gradilac_start(w, hc, hci, seed_i, lcg_i, hcv) ==
    [seed |-> Mask(seed_i, w), lcg |-> Mask(lcg_i, w),
     h |-> calc_h_init(w, hc, hci, hcv), x |-> 0, out1 |-> 0]

\* a call in the first loop
init_call(c, w, hc) == [main_call(c, w, hc) EXCEPT !.x = x_after_init(c.x)]

\* a call followed by calc_x += 1
next_call(c, w, hc) == [main_call(c, w, hc) EXCEPT !.x = x_after_call(c.x)]

\* one observed round: two calls, the observation out1^out2
round_a(c, w, hc) ==
    LET c1 == next_call(c, w, hc)
        c2 == next_call(c1, w, hc)
    IN  [state |-> c2, ob |-> BitXor(c1.out1, c2.out1)]

\* a shorter second loop of the symbolic run
sat_warm_count_short(hc) == hc

\* for k in range(hc+1)
sat_warm_count(hc) == hc + 1

\* seed, lcg, h[x % hc], out1 = prvhash_core_sat(seed, lcg, h[x % hc])
sat_call(c, hc) ==
    LET idx == hash_index(c.x, hc) + 1
        r == prvhash_core_sat(c.seed, c.lcg, c.h[idx])
    IN  [c EXCEPT !.seed = r.seed, !.lcg = r.lcg, !.h[idx] = r.h,
                  !.out1 = r.out]

\* the first loop of the symbolic run, n calls of it left
RECURSIVE sat_init_loop(_, _, _)
sat_init_loop(c, hc, n) ==
    IF n = 0 THEN c
    ELSE sat_init_loop([sat_call(c, hc) EXCEPT !.x = x_after_init(c.x)],
                       hc, n - 1)

\* the second loop of the symbolic run, n calls of it left
RECURSIVE sat_warm_loop(_, _, _)
sat_warm_loop(c, hc, n) ==
    IF n = 0 THEN c
    ELSE sat_warm_loop([sat_call(c, hc) EXCEPT !.x = x_after_call(c.x)],
                       hc, n - 1)

\* b.make_equal(bool((obs[k] >> i) & 1)) for the bits b of out
bound_equal(out, ob) ==
    \A i \in 1 .. Len(out) : out[i] = (((ob \div Pow2(i - 1)) % 2) = 1)

\* the third loop of the symbolic run from round k on: whether every binding
\* it makes holds
RECURSIVE sat_obs_loop(_, _, _, _)
sat_obs_loop(c, hc, k, observations) ==
    IF k >= Len(observations) THEN TRUE
    ELSE LET c1 == [sat_call(c, hc) EXCEPT !.x = x_after_call(c.x)]
             c2 == [sat_call(c1, hc) EXCEPT !.x = x_after_call(c1.x)]
         IN  /\ bound_equal(xor(c1.out1, c2.out1), observations[k + 1])
             /\ sat_obs_loop(c2, hc, k + 1, observations)

\* the unknowns under an assignment: new_vars for seed, lcg and the first hci
\* hash words, constant zero for the other hash words
sat_start(w, hc, hci, a) ==
    [seed |-> inibits(w, a.seed), lcg |-> inibits(w, a.lcg),
     h |-> [i \in 1 .. hc |->
              IF i - 1 < hci THEN inibits(w, a.h[i]) ELSE inibits(w, 0)],
     x |-> 0, out1 |-> inibits(w, 0)]

\* whether the assignment a of the unknowns satisfies every binding of the
\* symbolic run
satisfies(w, hc, hci, a, observations) ==
    sat_obs_loop(
        sat_warm_loop(sat_init_loop(sat_start(w, hc, hci, a), hc, init_count),
                      hc, sat_warm_count(hc)),
        hc, 0, observations)

RecoverInit ==
    /\ pc = "calc_init"
    /\ bits = gradilac_bits
    /\ par = [hc |-> gradilac_hc, hci |-> gradilac_hci,
              num_obs |-> gradilac_num_obs, seed_i |-> gradilac_seed_i,
              lcg_i |-> gradilac_lcg_i, hcv |-> gradilac_hcv, i |-> 0]
    /\ calc = gradilac_start(gradilac_bits, gradilac_hc, gradilac_hci,
                             gradilac_seed_i, gradilac_lcg_i, gradilac_hcv)
    /\ sat = NoRec
    /\ obs = <<>>
    /\ hist = NoRec

\* for i in range(5)
GenInitLoop ==
    /\ pc = "calc_init"
    /\ calc' = init_call(calc, bits, par.hc)
    /\ par' = [par EXCEPT !.i = IF par.i + 1 = init_count THEN 0 ELSE par.i + 1]
    /\ pc' = IF par.i + 1 < init_count THEN pc ELSE "calc_warm"
    /\ UNCHANGED <<bits, sat, obs, hist>>

\* for i in range(hc+1)
GenWarmLoop ==
    /\ pc = "calc_warm"
    /\ calc' = next_call(calc, bits, par.hc)
    /\ par' = [par EXCEPT !.i = IF par.i + 1 = par.hc + 1 THEN 0 ELSE par.i + 1]
    /\ pc' = IF par.i + 1 < par.hc + 1 THEN pc ELSE "calc_obs"
    /\ UNCHANGED <<bits, sat, obs, hist>>

\* for i in range(num_obs): obs.append(out1^out2)
GenObsLoop ==
    /\ pc = "calc_obs"
    /\ LET r == round_a(calc, bits, par.hc)
       IN  /\ calc' = r.state
           /\ obs' = Append(obs, r.ob)
    /\ par' = [par EXCEPT !.i = IF par.i + 1 = par.num_obs THEN 0 ELSE par.i + 1]
    /\ pc' = IF par.i + 1 < par.num_obs THEN pc ELSE "solve"
    /\ UNCHANGED <<bits, sat, hist>>

\* the number of calls before the first observed round, and the index
\* counter there
calls_before_obs == init_count + par.hc + 1

x_before_obs == par.hc + 1

\* the output of a call: lcg ^ rs, both made from the seed and lcg passed
core_out(w, seed, lcg) ==
    LET seed1 == core_mul(w, seed, lcg)
    IN  BitXor(core_lcg(w, lcg, seed1), core_rot(w, seed1))

\* the solver decides seed and lcg before the first observed round
SolveSeedLcg ==
    /\ pc = "solve"
    /\ \E s \in Word(bits), l \in Word(bits) :
          sat' = [seed |-> s, lcg |-> l]
    /\ pc' = "solve_first"
    /\ UNCHANGED <<bits, par, calc, obs, hist>>

\* the solver decides the hash word of the first call of that round: the
\* first binding must hold
SolveFirstHash ==
    /\ pc = "solve_first"
    /\ \E v \in Word(bits) :
          LET r == prvhash_core_calc(bits, sat.seed, sat.lcg, v)
          IN  /\ BitXor(r.out, core_out(bits, r.seed, r.lcg)) = obs[1]
              /\ sat' = [seed |-> sat.seed, lcg |-> sat.lcg, first |-> v]
    /\ pc' = "solve_second"
    /\ UNCHANGED <<bits, par, calc, obs, hist>>

\* the solver decides the other hash word: the first two bindings must hold
SolveSecondHash ==
    /\ pc = "solve_second"
    /\ \E u \in Word(bits) :
          LET first == hash_index(x_before_obs, par.hc) + 1
              c == [seed |-> sat.seed, lcg |-> sat.lcg,
                    h |-> [i \in 1 .. par.hc |->
                             IF i = first THEN sat.first ELSE u],
                    x |-> x_before_obs, out1 |-> 0]
              r0 == round_a(c, bits, par.hc)
              r1 == round_a(r0.state, bits, par.hc)
          IN  /\ r0.ob = obs[1]
              /\ r1.ob = obs[2]
              /\ sat' = [at |-> c, cur |-> r1.state, k |-> 2]
    /\ pc' = "solve_rounds"
    /\ UNCHANGED <<bits, par, calc, obs, hist>>

\* the next binding must hold of the words decided
SolveRound ==
    /\ pc = "solve_rounds"
    /\ sat.k < par.num_obs
    /\ LET r == round_a(sat.cur, bits, par.hc)
       IN  /\ r.ob = obs[sat.k + 1]
           /\ sat' = [sat EXCEPT !.cur = r.state, !.k = sat.k + 1]
    /\ UNCHANGED <<pc, bits, par, calc, obs, hist>>

\* all bindings hold: the solver turns to the calls before the first round
SolveRoundsDone ==
    /\ pc = "solve_rounds"
    /\ sat.k = par.num_obs
    /\ sat' = [cur |-> sat.at, n |-> calls_before_obs]
    /\ pc' = "solve_back"
    /\ UNCHANGED <<bits, par, calc, obs, hist>>

\* the states from which call n (0-based) of the run leads to the state c:
\* seed and lcg that give c.lcg, and with them a hash word that gives the
\* hash word and the seed of c
before_call(c, n, w, hc) ==
    LET xb == IF n < init_count THEN 0 ELSE n - init_count
        idx == hash_index(xb, hc) + 1
        sl == {q \in Word(w) \X Word(w) :
                 core_lcg(w, q[2], core_mul(w, q[1], q[2])) = c.lcg}
        cands == UNION {{[c EXCEPT !.seed = q[1], !.lcg = q[2], !.h[idx] = v,
                                   !.x = xb, !.out1 = 0] : v \in Word(w)} :
                        q \in sl}
    IN  {b \in cands :
            LET nx == IF n < init_count THEN init_call(b, w, hc)
                      ELSE next_call(b, w, hc)
            IN  [nx EXCEPT !.out1 = 0] = [c EXCEPT !.out1 = 0]}

\* the solver decides the words before an earlier call
SolveBack ==
    /\ pc = "solve_back"
    /\ sat.n > 0
    /\ \E b \in before_call(sat.cur, sat.n - 1, bits, par.hc) :
          sat' = [cur |-> b, n |-> sat.n - 1]
    /\ UNCHANGED <<pc, bits, par, calc, obs, hist>>

\* model = inst.solve(...): the unknowns are decided; decode_number of
\* start_seed, start_lcg and start_h
SolveDone ==
    /\ pc = "solve_back"
    /\ sat.n = 0
    /\ sat' = [seed |-> sat.cur.seed, lcg |-> sat.cur.lcg, h |-> sat.cur.h]
    /\ pc' = "done"
    /\ UNCHANGED <<bits, par, calc, obs, hist>>

RecoverNext ==
    \/ GenInitLoop
    \/ GenWarmLoop
    \/ GenObsLoop
    \/ SolveSeedLcg
    \/ SolveFirstHash
    \/ SolveSecondHash
    \/ SolveRound
    \/ SolveRoundsDone
    \/ SolveBack
    \/ SolveDone

SpecRecover == RecoverInit /\ [][RecoverNext]_vars

secret ==
    [seed |-> Mask(par.seed_i, bits), lcg |-> Mask(par.lcg_i, bits),
     h |-> calc_h_init(bits, par.hc, par.hci, par.hcv)]

\* C2: with the script's parameters the bindings are satisfiable (the secret
\* satisfies them), and every assignment of seed, lcg, h[0], h[1] whose 64
\* observations are those of the secret (every assignment the solver can
\* return, each satisfying the bindings) has the seed 4 and the hash words
\* 13 and 4 of the secret.
RoundTripRecovery ==
    /\ pc = "solve" =>
          /\ Len(obs) = gradilac_num_obs
          /\ satisfies(bits, par.hc, par.hci, secret, obs)
    /\ pc = "done" =>
          /\ satisfies(bits, par.hc, par.hci, sat, obs)
          /\ sat.seed = secret.seed /\ sat.seed = 4
          /\ sat.h = secret.h /\ sat.h = <<13, 4>>

\* the solver has returned an assignment that is not the secret: it differs
\* from it in lcg
RoundTripWitness ==
    /\ pc = "done"
    /\ sat.lcg # secret.lcg
    /\ sat.seed = 4 /\ sat.h = <<13, 4>>

====
